---- MODULE Spec2Model ----
(***************************************************************************)
(* Model of resolver/src/lookup.rs: the Lookup answer container, the       *)
(* LookupFuture name-fallback state machine and the typed lookup views.    *)
(***************************************************************************)
EXTENDS Integers, Sequences, FiniteSets, TLC

(* ------------------------------ bounds --------------------------------- *)
MaxNames == 3
MaxRecs == 2
MaxDeadline == 2

SeqUpTo(S, n) == UNION {[1..k -> S] : k \in 0..n}

(* ------------------------------ data ----------------------------------- *)
Names == {"host.sub.example.", "host.example."}
RecordTypes == {"A", "AAAA"}
RecordTypeNULL == "NULL"
DnsRequestOptionsDefault == [expects_multiple_responses |-> FALSE]
DnsRequestOptionsSet == {[expects_multiple_responses |-> b] : b \in BOOLEAN}

RDatas == {[kind |-> "A", data |-> "127.0.0.1"], [kind |-> "AAAA", data |-> "::1"]}
Deadlines == 1..MaxDeadline

new_with_deadline(rdatas, valid_until) == [rdatas |-> rdatas, valid_until |-> valid_until]
Lookups == {new_with_deadline(rs, d) : rs \in SeqUpTo(RDatas, MaxRecs), d \in Deadlines}
len(lkp) == Len(lkp.rdatas)
is_empty(lkp) == lkp.rdatas = <<>>

min(x, y) == IF x <= y THEN x ELSE y

(* variant: the merged container keeps the later deadline *)
append_later_deadline(self, other) ==
    new_with_deadline(self.rdatas \o other.rdatas,
                      IF self.valid_until >= other.valid_until
                      THEN self.valid_until ELSE other.valid_until)

(* variant: the other container's records are put first *)
append_other_first(self, other) ==
    new_with_deadline(other.rdatas \o self.rdatas,
                      min(self.valid_until, other.valid_until))

append(self, other) ==
    new_with_deadline(self.rdatas \o other.rdatas,
                      min(self.valid_until, other.valid_until))

Query(name, record_type) == [name |-> name, query_type |-> record_type]

(* ResolveError values *)
ErrIo == [kind |-> "Io"]
ErrTimeout == [kind |-> "Timeout"]
ErrNoRecordsFound(query) == [kind |-> "NoRecordsFound", query |-> query]
ErrMessage(msg) == [kind |-> "Message", msg |-> msg]
ErrMsg(msg) == [kind |-> "Msg", msg |-> msg]
HandleErrors == {ErrIo, ErrTimeout}

(* errors handed to LookupFuture::error; Display prints the description *)
Causes == {[kind |-> "LabelBytesTooLong", desc |-> "label bytes exceed 63"],
           [kind |-> "DomainNameTooLong", desc |-> "name label data exceed 255"]}
NoCause == [kind |-> "none", desc |-> ""]
Display(e) == e.desc

(* Poll<Lookup, ResolveError> and results of a boxed sub-query *)
NotReady == [kind |-> "NotReady"]
Ready(lkp) == [kind |-> "Ready", lookup |-> lkp]
Err(e) == [kind |-> "Err", err |-> e]
NoPoll == [kind |-> "None"]

OutOk(lkp) == [kind |-> "Ok", lookup |-> lkp]
OutErr(e) == [kind |-> "Err", err |-> e]
NoOut == [kind |-> "None"]

PendingFuture == [st |-> "pending", registered |-> FALSE, out |-> NoOut]
future_err(e) == [st |-> "ready", registered |-> FALSE, out |-> OutErr(e)]

(* what the handle / cache beneath the caching client answers to one query *)
Replies ==
    {[kind |-> "message", answers |-> rs, valid_until |-> d] :
        rs \in SeqUpTo(RDatas, MaxRecs), d \in Deadlines}
    \cup {[kind |-> "error", err |-> e] : e \in HandleErrors}
    \cup {[kind |-> "cached", lookup |-> l] : l \in Lookups}

(* CachingClient::lookup, as far as its result for one query is concerned *)
CachingClientLookup(query, reply) ==
    CASE reply.kind = "cached" -> OutOk(reply.lookup)
      [] reply.kind = "error" -> OutErr(reply.err)
      [] reply.kind = "message" ->
            IF reply.answers = <<>>
            THEN OutErr(ErrNoRecordsFound(query))
            ELSE OutOk(new_with_deadline(reply.answers, reply.valid_until))

(* ------------------------- LookupFuture -------------------------------- *)
(* client_cache is represented by the sequence of lookup calls it received *)
CacheCall(query, options) == [query |-> query, options |-> options]

(* variant: an empty list falls back to querying the root name *)
lookup_unwrap_or_root(names, record_type, options, client_cache) ==
    LET name == IF names # <<>> THEN names[Len(names)] ELSE "."
    IN [client_cache |-> Append(client_cache, CacheCall(Query(name, record_type), options)),
        names |-> IF names # <<>> THEN SubSeq(names, 1, Len(names) - 1) ELSE names,
        record_type |-> record_type,
        options |-> options,
        future |-> PendingFuture]

lookup(names, record_type, options, client_cache) ==
    IF names # <<>>
    THEN [client_cache |-> Append(client_cache,
                                  CacheCall(Query(names[Len(names)], record_type), options)),
          names |-> SubSeq(names, 1, Len(names) - 1),
          record_type |-> record_type,
          options |-> options,
          future |-> PendingFuture]
    ELSE [client_cache |-> client_cache,
          names |-> names,
          record_type |-> record_type,
          options |-> options,
          future |-> future_err(ErrMessage("can not lookup for no names"))]

(* variant: the cause is formatted with its variant name, not its description *)
error_debug(client_cache, cause) ==
    [client_cache |-> client_cache,
     names |-> <<>>,
     record_type |-> RecordTypeNULL,
     options |-> DnsRequestOptionsDefault,
     future |-> future_err(ErrMsg(cause.kind))]

error(client_cache, cause) ==
    [client_cache |-> client_cache,
     names |-> <<>>,
     record_type |-> RecordTypeNULL,
     options |-> DnsRequestOptionsDefault,
     future |-> future_err(ErrMsg(Display(cause)))]

(* variant: the last remaining candidate is never queried *)
next_lookup_skip_last(self, otherwise) ==
    IF Len(self.names) > 1
    THEN LET name == self.names[Len(self.names)]
         IN [self |-> [self EXCEPT
                          !.names = SubSeq(self.names, 1, Len(self.names) - 1),
                          !.client_cache = Append(@, CacheCall(Query(name, self.record_type),
                                                               self.options)),
                          !.future = PendingFuture],
             notify |-> TRUE,
             ret |-> NotReady]
    ELSE [self |-> self, notify |-> FALSE, ret |-> otherwise]

(* variant: candidates are removed from the front of the list *)
next_lookup_front(self, otherwise) ==
    IF self.names # <<>>
    THEN LET name == Head(self.names)
         IN [self |-> [self EXCEPT
                          !.names = Tail(self.names),
                          !.client_cache = Append(@, CacheCall(Query(name, self.record_type),
                                                               self.options)),
                          !.future = PendingFuture],
             notify |-> TRUE,
             ret |-> NotReady]
    ELSE [self |-> self, notify |-> FALSE, ret |-> otherwise]

(* variant: on exhaustion an error is replaced by the "no names" error of the failed pop *)
next_lookup_noname_err(self, otherwise) ==
    IF self.names # <<>>
    THEN LET name == self.names[Len(self.names)]
         IN [self |-> [self EXCEPT
                          !.names = SubSeq(self.names, 1, Len(self.names) - 1),
                          !.client_cache = Append(@, CacheCall(Query(name, self.record_type),
                                                               self.options)),
                          !.future = PendingFuture],
             notify |-> TRUE,
             ret |-> NotReady]
    ELSE [self |-> self, notify |-> FALSE,
          ret |-> IF otherwise.kind = "Err"
                  THEN Err(ErrMessage("can not lookup for no names"))
                  ELSE otherwise]

(* variant: the new sub-query is installed without waking the task *)
next_lookup_no_notify(self, otherwise) ==
    IF self.names # <<>>
    THEN LET name == self.names[Len(self.names)]
         IN [self |-> [self EXCEPT
                          !.names = SubSeq(self.names, 1, Len(self.names) - 1),
                          !.client_cache = Append(@, CacheCall(Query(name, self.record_type),
                                                               self.options)),
                          !.future = PendingFuture],
             notify |-> FALSE,
             ret |-> NotReady]
    ELSE [self |-> self, notify |-> FALSE, ret |-> otherwise]

(* variant: later queries are sent with the default request options *)
next_lookup_default_options(self, otherwise) ==
    IF self.names # <<>>
    THEN LET name == self.names[Len(self.names)]
         IN [self |-> [self EXCEPT
                          !.names = SubSeq(self.names, 1, Len(self.names) - 1),
                          !.client_cache = Append(@, CacheCall(Query(name, self.record_type),
                                                               DnsRequestOptionsDefault)),
                          !.future = PendingFuture],
             notify |-> TRUE,
             ret |-> NotReady]
    ELSE [self |-> self, notify |-> FALSE, ret |-> otherwise]

(* variant: the candidate is read from the end of the list but not removed *)
next_lookup_no_pop(self, otherwise) ==
    IF self.names # <<>>
    THEN LET name == self.names[Len(self.names)]
         IN [self |-> [self EXCEPT
                          !.client_cache = Append(@, CacheCall(Query(name, self.record_type),
                                                               self.options)),
                          !.future = PendingFuture],
             notify |-> TRUE,
             ret |-> NotReady]
    ELSE [self |-> self, notify |-> FALSE, ret |-> otherwise]

next_lookup(self, otherwise) ==
    IF self.names # <<>>
    THEN LET name == self.names[Len(self.names)]
         IN [self |-> [self EXCEPT
                          !.names = SubSeq(self.names, 1, Len(self.names) - 1),
                          !.client_cache = Append(@, CacheCall(Query(name, self.record_type),
                                                               self.options)),
                          !.future = PendingFuture],
             notify |-> TRUE,
             ret |-> NotReady]
    ELSE [self |-> self, notify |-> FALSE, ret |-> otherwise]

(* variant: a non-empty answer does not stop the fallback *)
poll_continue(self) ==
    IF self.future.st = "pending"
    THEN [self |-> [self EXCEPT !.future.registered = TRUE],
          notify |-> FALSE,
          ret |-> NotReady]
    ELSE LET taken == [self EXCEPT !.future.st = "done"]
             out == self.future.out
         IN IF out.kind = "Ok"
            THEN next_lookup(taken, Ready(out.lookup))
            ELSE next_lookup(taken, Err(out.err))

(* variant: an empty answer of the last candidate is reported as an error *)
poll_empty_is_error(self) ==
    IF self.future.st = "pending"
    THEN [self |-> [self EXCEPT !.future.registered = TRUE],
          notify |-> FALSE,
          ret |-> NotReady]
    ELSE LET taken == [self EXCEPT !.future.st = "done"]
             out == self.future.out
         IN IF out.kind = "Ok"
            THEN IF len(out.lookup) = 0
                 THEN next_lookup(taken,
                          Err(ErrNoRecordsFound(
                                self.client_cache[Len(self.client_cache)].query)))
                 ELSE [self |-> taken, notify |-> FALSE, ret |-> Ready(out.lookup)]
            ELSE next_lookup(taken, Err(out.err))

(* variant: an error is returned at once, also while candidates remain *)
poll_surface_err(self) ==
    IF self.future.st = "pending"
    THEN [self |-> [self EXCEPT !.future.registered = TRUE],
          notify |-> FALSE,
          ret |-> NotReady]
    ELSE LET taken == [self EXCEPT !.future.st = "done"]
             out == self.future.out
         IN IF out.kind = "Ok"
            THEN IF len(out.lookup) = 0
                 THEN next_lookup(taken, Ready(out.lookup))
                 ELSE [self |-> taken, notify |-> FALSE, ret |-> Ready(out.lookup)]
            ELSE [self |-> taken, notify |-> FALSE, ret |-> Err(out.err)]

(* variant: a still pending sub-query also makes the future move to the next name *)
poll_pending_next(self) ==
    IF self.future.st = "pending"
    THEN next_lookup([self EXCEPT !.future.registered = TRUE], NotReady)
    ELSE LET taken == [self EXCEPT !.future.st = "done"]
             out == self.future.out
         IN IF out.kind = "Ok"
            THEN IF len(out.lookup) = 0
                 THEN next_lookup(taken, Ready(out.lookup))
                 ELSE [self |-> taken, notify |-> FALSE, ret |-> Ready(out.lookup)]
            ELSE next_lookup(taken, Err(out.err))

poll(self) ==
    IF self.future.st = "pending"
    THEN [self |-> [self EXCEPT !.future.registered = TRUE],
          notify |-> FALSE,
          ret |-> NotReady]
    ELSE LET taken == [self EXCEPT !.future.st = "done"]
             out == self.future.out
         IN IF out.kind = "Ok"
            THEN IF len(out.lookup) = 0
                 THEN next_lookup(taken, Ready(out.lookup))
                 ELSE [self |-> taken, notify |-> FALSE, ret |-> Ready(out.lookup)]
            ELSE next_lookup(taken, Err(out.err))

(* typed views: lookup_type!(Ipv4Lookup, Ipv4LookupIter, ..., RData::A, Ipv4Addr) *)
RECURSIVE FilterMap(_, _)
FilterMap(rdatas, kind) ==
    IF rdatas = <<>> THEN <<>>
    ELSE IF Head(rdatas).kind = kind
         THEN <<Head(rdatas).data>> \o FilterMap(Tail(rdatas), kind)
         ELSE FilterMap(Tail(rdatas), kind)

(* variant: the view is instantiated with the wrong record kind *)
Ipv4LookupIter_wrong_kind(lkp) == FilterMap(lkp.rdatas, "AAAA")

Ipv4LookupIter(lkp) == FilterMap(lkp.rdatas, "A")

(* Lookup::iter / LookupIter: a cursor over the container's records *)
MaxIterRecs == 3
None == [some |-> FALSE]
Some(v) == [some |-> TRUE, val |-> v]

Lookup_iter(lkp) == [rest |-> lkp.rdatas]

LookupIterNext(it) ==
    IF it.rest = <<>>
    THEN [item |-> None, it |-> it]
    ELSE [item |-> Some(Head(it.rest)), it |-> [rest |-> Tail(it.rest)]]

(* the record families and the RData variant each typed view matches *)
FamilyKind ==
    [ReverseLookup |-> "PTR", Ipv4Lookup |-> "A", Ipv6Lookup |-> "AAAA",
     MxLookup |-> "MX", TxtLookup |-> "TXT", SrvLookup |-> "SRV"]
Families == DOMAIN FamilyKind
GeneratedFamilies == Families \ {"SrvLookup"}

IterRDatas ==
    {[kind |-> "PTR", data |-> "host.example."],
     [kind |-> "A", data |-> "127.0.0.1"],
     [kind |-> "A", data |-> "10.0.0.1"],
     [kind |-> "AAAA", data |-> "::1"],
     [kind |-> "MX", data |-> "10 mail.example."],
     [kind |-> "TXT", data |-> "v=spf1"],
     [kind |-> "SRV", data |-> "0 5 5060 sip.example."],
     [kind |-> "SRV", data |-> "1 5 5061 alt.example."]}

(* $l(lookup) / SrvLookup(lookup) *)
TypedLookup(family, lkp) == [family |-> family, lookup |-> lkp]
TypedViews ==
    {TypedLookup(f, new_with_deadline(rs, 1)) :
        f \in Families, rs \in SeqUpTo(IterRDatas, MaxIterRecs)}

(* $l::iter / SrvLookup::iter *)
typed_iter(typed) == [kind |-> FamilyKind[typed.family], inner |-> Lookup_iter(typed.lookup)]

(* variant: the iterator stops at the first record of another kind *)
typed_iter_next_take_while(it) ==
    LET n == LookupIterNext(it.inner)
    IN IF ~n.item.some
       THEN [item |-> None, it |-> [it EXCEPT !.inner = n.it]]
       ELSE IF n.item.val.kind = it.kind
            THEN [item |-> Some(n.item.val.data), it |-> [it EXCEPT !.inner = n.it]]
            ELSE [item |-> None, it |-> [it EXCEPT !.inner = n.it]]

(* Iterator::next of a generated $i: filter_map(..).next() on the cursor *)
RECURSIVE typed_iter_next(_)
typed_iter_next(it) ==
    LET n == LookupIterNext(it.inner)
    IN IF ~n.item.some
       THEN [item |-> None, it |-> [it EXCEPT !.inner = n.it]]
       ELSE IF n.item.val.kind = it.kind
            THEN [item |-> Some(n.item.val.data), it |-> [it EXCEPT !.inner = n.it]]
            ELSE typed_iter_next([it EXCEPT !.inner = n.it])

(* Iterator::next of SrvLookupIter *)
RECURSIVE SrvLookupIter_next(_)
SrvLookupIter_next(it) ==
    LET n == LookupIterNext(it.inner)
    IN IF ~n.item.some
       THEN [item |-> None, it |-> [it EXCEPT !.inner = n.it]]
       ELSE IF n.item.val.kind = "SRV"
            THEN [item |-> Some(n.item.val.data), it |-> [it EXCEPT !.inner = n.it]]
            ELSE SrvLookupIter_next([it EXCEPT !.inner = n.it])

(* typed futures: $f(LookupFuture) and SrvLookupFuture(LookupFuture) *)
TypedFuture(family, inner) == [family |-> family, inner |-> inner]
FutureFamily == [A |-> "Ipv4Lookup", AAAA |-> "Ipv6Lookup"]

(* variant: a suspended inner future is polled once more before returning *)
typed_poll_twice(f) ==
    LET r == poll(f.inner)
        r2 == IF r.ret.kind = "NotReady" THEN poll(r.self) ELSE r
    IN [self |-> [f EXCEPT !.inner = r2.self],
        notify |-> r.notify \/ r2.notify,
        inner_ret |-> r2.ret,
        ret |-> CASE r2.ret.kind = "Ready" ->
                        Ready(TypedLookup(f.family, r2.ret.lookup))
                  [] r2.ret.kind = "NotReady" -> NotReady
                  [] r2.ret.kind = "Err" -> Err(r2.ret.err)]

(* Future::poll of a generated $f; inner_ret is the value of self.0.poll() *)
typed_poll(f) ==
    LET r == poll(f.inner)
    IN [self |-> [f EXCEPT !.inner = r.self],
        notify |-> r.notify,
        inner_ret |-> r.ret,
        ret |-> CASE r.ret.kind = "Ready" ->
                        Ready(TypedLookup(f.family, r.ret.lookup))
                  [] r.ret.kind = "NotReady" -> NotReady
                  [] r.ret.kind = "Err" -> Err(r.ret.err)]

(* Future::poll of SrvLookupFuture *)
SrvLookupFuture_poll(f) ==
    LET r == poll(f.inner)
    IN [self |-> [f EXCEPT !.inner = r.self],
        notify |-> r.notify,
        inner_ret |-> r.ret,
        ret |-> CASE r.ret.kind = "Ready" ->
                        Ready(TypedLookup("SrvLookup", r.ret.lookup))
                  [] r.ret.kind = "NotReady" -> NotReady
                  [] r.ret.kind = "Err" -> Err(r.ret.err)]

(* ------------------------------ state ---------------------------------- *)
VARIABLES
    lf,         \* the LookupFuture
    notified,   \* the task owning lf has been woken and will be polled
    ret,        \* value returned by the latest LookupFuture::poll
    tret,       \* value returned by the latest poll of the typed future around lf
    built,      \* arguments the future was constructed from (history)
    resolved,   \* what each issued sub-query resolved to, in issue order (history)
    replied,    \* what the handle / cache answered to each sub-query (history)
    operands,   \* the containers handed to Lookup::append
    merged,     \* the containers Lookup::append returned
    view,       \* a typed lookup view
    iters       \* the iterators obtained from view, with what each has yielded

engineVars == <<lf, notified, ret, tret, built, resolved, replied>>
appendVars == <<operands, merged>>
iterVars == <<view, iters>>
vars == <<lf, notified, ret, tret, built, resolved, replied, operands, merged, view, iters>>

NoOperands == <<>>
NoMerge == [kind |-> "none"]
AppendIdle == operands = NoOperands /\ merged = NoMerge
NoView == [family |-> "none"]
NoIter == [made |-> FALSE, yielded |-> <<>>, done |-> FALSE]
IterIdle == view = NoView /\ iters = <<>>

Summary(out) ==
    IF out.kind = "Ok"
    THEN IF is_empty(out.lookup) THEN [kind |-> "empty"] ELSE [kind |-> "nonempty"]
    ELSE out.err

ReplySummary(reply) ==
    [kind |-> reply.kind,
     answered |-> IF reply.kind = "message" THEN reply.answers # <<>> ELSE FALSE]

Init ==
    /\ AppendIdle
    /\ IterIdle
    /\ notified = TRUE
    /\ ret = NoPoll
    /\ tret = NoPoll
    /\ resolved = <<>>
    /\ replied = <<>>
    /\ \/ \E names \in SeqUpTo(Names, MaxNames), rt \in RecordTypes,
             opts \in DnsRequestOptionsSet :
            /\ lf = lookup(names, rt, opts, <<>>)
            /\ built = [by |-> "lookup", names |-> names, record_type |-> rt,
                        options |-> opts, cause |-> NoCause,
                        family |-> FutureFamily[rt]]
       \/ \E cause \in Causes, family \in Families :
            /\ lf = error(<<>>, cause)
            /\ built = [by |-> "error", names |-> <<>>, record_type |-> RecordTypeNULL,
                        options |-> DnsRequestOptionsDefault, cause |-> cause,
                        family |-> family]

(* the in-flight sub-query completes *)
SubQueryComplete ==
    /\ lf.future.st = "pending"
    /\ \E reply \in Replies :
          LET out == CachingClientLookup(lf.client_cache[Len(lf.client_cache)].query, reply)
          IN /\ lf' = [lf EXCEPT !.future.st = "ready", !.future.out = out]
             /\ resolved' = Append(resolved, Summary(out))
             /\ replied' = Append(replied, ReplySummary(reply))
    /\ notified' = (notified \/ lf.future.registered)
    /\ UNCHANGED <<ret, tret, built>>
    /\ UNCHANGED appendVars
    /\ UNCHANGED iterVars

(* the executor polls the woken task: the typed future, which polls lf *)
Poll ==
    /\ notified
    /\ tret.kind \in {"None", "NotReady"}
    /\ LET f == TypedFuture(built.family, lf)
           r == IF built.family = "SrvLookup" THEN SrvLookupFuture_poll(f) ELSE typed_poll(f)
       IN /\ lf' = r.self.inner
          /\ ret' = r.inner_ret
          /\ tret' = r.ret
          /\ notified' = r.notify
    /\ UNCHANGED <<built, resolved, replied>>
    /\ UNCHANGED appendVars
    /\ UNCHANGED iterVars

Next == Poll \/ SubQueryComplete

Spec == Init /\ [][Next]_vars

(* a woken task is eventually polled *)
SpecPolled == Spec /\ WF_vars(Poll)

(* and every sub-query eventually completes *)
SpecFair == Spec /\ WF_vars(Poll) /\ WF_vars(SubQueryComplete)

(* --------------------- Lookup::append on its own ----------------------- *)
EngineIdle ==
    /\ lf = error(<<>>, NoCause)
    /\ notified = FALSE
    /\ ret = NoPoll
    /\ tret = NoPoll
    /\ built = [by |-> "none", names |-> <<>>, record_type |-> RecordTypeNULL,
                options |-> DnsRequestOptionsDefault, cause |-> NoCause,
                family |-> "none"]
    /\ resolved = <<>>
    /\ replied = <<>>

InitAppend ==
    /\ EngineIdle
    /\ IterIdle
    /\ operands \in Lookups \X Lookups \X Lookups
    /\ merged = NoMerge

(* a.append(b) and b.append(a) *)
AppendPair ==
    /\ merged.kind = "none"
    /\ merged' = [kind |-> "pair",
                  ab |-> append(operands[1], operands[2]),
                  ba |-> append(operands[2], operands[1])]
    /\ UNCHANGED operands
    /\ UNCHANGED engineVars
    /\ UNCHANGED iterVars

(* a.append(b).append(c) and a.append(b.append(c)) *)
AppendNested ==
    /\ merged.kind = "pair"
    /\ merged' = [kind |-> "nested",
                  ab |-> merged.ab,
                  ba |-> merged.ba,
                  ab_c |-> append(merged.ab, operands[3]),
                  a_bc |-> append(operands[1], append(operands[2], operands[3]))]
    /\ UNCHANGED operands
    /\ UNCHANGED engineVars
    /\ UNCHANGED iterVars

NextAppend == AppendPair \/ AppendNested

SpecAppend == InitAppend /\ [][NextAppend]_vars

(* ------------------- typed views and their iterators ------------------- *)
InitIter ==
    /\ EngineIdle
    /\ AppendIdle
    /\ view \in TypedViews
    /\ iters = <<NoIter, NoIter>>

(* view.iter() *)
Iter(i) ==
    /\ ~iters[i].made
    /\ iters' = [iters EXCEPT ![i] = [made |-> TRUE, it |-> typed_iter(view),
                                      yielded |-> <<>>, done |-> FALSE]]
    /\ UNCHANGED view
    /\ UNCHANGED engineVars
    /\ UNCHANGED appendVars

(* next() on an iterator of one of the generated views *)
IterNext(i) ==
    /\ iters[i].made /\ ~iters[i].done
    /\ view.family \in GeneratedFamilies
    /\ LET n == typed_iter_next(iters[i].it)
       IN iters' = [iters EXCEPT ![i] =
                      [made |-> TRUE, it |-> n.it,
                       yielded |-> IF n.item.some THEN Append(@.yielded, n.item.val)
                                   ELSE @.yielded,
                       done |-> ~n.item.some]]
    /\ UNCHANGED view
    /\ UNCHANGED engineVars
    /\ UNCHANGED appendVars

(* next() on a SrvLookupIter *)
SrvIterNext(i) ==
    /\ iters[i].made /\ ~iters[i].done
    /\ view.family = "SrvLookup"
    /\ LET n == SrvLookupIter_next(iters[i].it)
       IN iters' = [iters EXCEPT ![i] =
                      [made |-> TRUE, it |-> n.it,
                       yielded |-> IF n.item.some THEN Append(@.yielded, n.item.val)
                                   ELSE @.yielded,
                       done |-> ~n.item.some]]
    /\ UNCHANGED view
    /\ UNCHANGED engineVars
    /\ UNCHANGED appendVars

NextIter == \E i \in 1..2 : Iter(i) \/ IterNext(i) \/ SrvIterNext(i)

SpecIter == InitIter /\ [][NextIter]_vars

(* ------------------------- derived notions ----------------------------- *)
issued == lf.client_cache
NCandidates == Len(built.names)
Terminal == ret.kind \in {"Ready", "Err"}
ByLookup == built.by = "lookup"
SubReady == lf.future.st = "ready"
IsError(r) == r.kind \notin {"empty", "nonempty"}
PriorityOrder ==
    \A k \in 1..Len(issued) : issued[k].query.name = built.names[NCandidates - k + 1]
FirstNonEmpty ==
    CHOOSE i \in DOMAIN resolved :
        /\ resolved[i].kind = "nonempty"
        /\ \A j \in 1..(i - 1) : resolved[j].kind # "nonempty"

(* C1: as soon as a sub-query has succeeded with a non-empty container the *)
(* next poll resolves with exactly that container, no candidate is removed *)
(* and no query is issued, then or at any later step; when it is the       *)
(* first-attempted candidate exactly one query was ever issued.            *)
C1_FirstNonEmptyWins ==
    [][ /\ (SubReady /\ lf.future.out.kind = "Ok" /\ ~is_empty(lf.future.out.lookup))
            => /\ ret' = Ready(lf.future.out.lookup)
               /\ lf'.client_cache = lf.client_cache
               /\ lf'.names = lf.names
               /\ (Len(resolved) = 1 => Len(lf'.client_cache) = 1)
        /\ (ret.kind = "Ready" /\ ~is_empty(ret.lookup))
            => (ret' = ret /\ lf'.client_cache = lf.client_cache)
      ]_vars

C1_Witness ==
    /\ ByLookup /\ ret.kind = "Ready" /\ ~is_empty(ret.lookup)
    /\ ret.lookup = lf.future.out.lookup
    /\ Len(issued) = 1 /\ lf.names # <<>>

(* C2: with n >= 1 candidates whose sub-queries all returned an empty      *)
(* container, a finished operation succeeded with an empty container after *)
(* exactly n queries, one per candidate, last list element first.          *)
C2_AllEmpty ==
    (/\ ByLookup /\ NCandidates >= 1 /\ Terminal
     /\ \A i \in DOMAIN resolved : resolved[i].kind = "empty")
    => /\ ret.kind = "Ready" /\ is_empty(ret.lookup)
       /\ Len(issued) = NCandidates
       /\ Len(resolved) = NCandidates
       /\ PriorityOrder

C2_Witness ==
    /\ ByLookup /\ NCandidates = MaxNames /\ ret.kind = "Ready" /\ is_empty(ret.lookup)
    /\ \A i \in DOMAIN resolved : resolved[i].kind = "empty"
    /\ Len(issued) = MaxNames

(* C3: an operation built by lookup from a non-empty list fails only when  *)
(* no candidate remains, and then with exactly the error of the sub-query  *)
(* issued last.                                                            *)
C3_LastError ==
    (ByLookup /\ NCandidates >= 1 /\ ret.kind = "Err")
    => /\ lf.names = <<>>
       /\ Len(resolved) = Len(issued)
       /\ ret.err = resolved[Len(resolved)]
       /\ lf.future.out = OutErr(ret.err)
       /\ (NCandidates = 1 => ret.err = resolved[1])

C3_Witness ==
    /\ ByLookup /\ ret.kind = "Err" /\ Len(resolved) >= 2
    /\ IsError(resolved[1]) /\ resolved[1] # ret.err
    /\ ret.err = resolved[Len(resolved)]

(* C4: lookup with an empty list never calls the caching client and every  *)
(* poll result, the first included, is the "no names" error.               *)
C4_NoNames ==
    (ByLookup /\ built.names = <<>>)
    => /\ lf.client_cache = <<>>
       /\ resolved = <<>>
       /\ (ret.kind # "None" => ret = Err(ErrMessage("can not lookup for no names")))

C4_Witness ==
    /\ ByLookup /\ built.names = <<>> /\ ret.kind = "Err" /\ lf.client_cache = <<>>

(* C5: the k-th query issued is for the k-th element from the end of the   *)
(* supplied list, and it is issued only after every earlier query resolved *)
(* to an empty container or an error.                                      *)
C5_PopOrder ==
    ByLookup =>
        /\ Len(issued) <= NCandidates
        /\ PriorityOrder
        /\ \A k \in 1..Len(issued) : \A j \in 1..(k - 1) :
              /\ j <= Len(resolved)
              /\ resolved[j].kind # "nonempty"

C5_Witness ==
    /\ ByLookup /\ Len(issued) = 3
    /\ built.names[1] # built.names[3]
    /\ issued[1].query.name = built.names[3]
    /\ issued[3].query.name = built.names[1]

(* C6: when the sub-query of the last remaining candidate has succeeded    *)
(* with an empty container, the next poll resolves successfully with that  *)
(* empty container and issues no query.                                    *)
C6_LastEmptyIsSuccess ==
    [][ (SubReady /\ lf.names = <<>> /\ lf.future.out.kind = "Ok"
            /\ is_empty(lf.future.out.lookup))
        => /\ ret' = Ready(lf.future.out.lookup)
           /\ is_empty(ret'.lookup)
           /\ lf'.client_cache = lf.client_cache
      ]_vars

C6_Witness ==
    /\ ByLookup /\ ret.kind = "Ready" /\ is_empty(ret.lookup)
    /\ Len(resolved) >= 2
    /\ \E i \in 1..(Len(resolved) - 1) : IsError(resolved[i])

C8_IntermediateErrorsSwallowed ==
    /\ [][ (SubReady /\ lf.future.out.kind = "Err" /\ lf.names # <<>>)
           => /\ ret' = NotReady
              /\ lf'.client_cache =
                    Append(lf.client_cache,
                           CacheCall(Query(lf.names[Len(lf.names)], lf.record_type),
                                     lf.options))
         ]_vars
    /\ []((ByLookup /\ NCandidates >= 1 /\ ret.kind = "Err")
            => (lf.names = <<>> /\ IsError(resolved[Len(resolved)])))
    /\ []((Terminal /\ resolved # <<>> /\ resolved[Len(resolved)].kind = "nonempty")
            => ret = Ready(lf.future.out.lookup))

C8_Witness ==
    /\ ByLookup /\ ret.kind = "Ready" /\ ~is_empty(ret.lookup)
    /\ Len(resolved) >= 2 /\ IsError(resolved[1])

(* C9: two candidates, first answer empty, second one A record 127.0.0.1:  *)
(* success, the IPv4 iterator yields exactly <<127.0.0.1>> and two queries *)
(* were issued; in general a non-empty success comes after as many queries *)
(* as the position of the first non-empty answer.                          *)
C9_SecondCandidateAnswers ==
    /\ (/\ ByLookup /\ NCandidates = 2 /\ Terminal /\ Len(resolved) = 2
        /\ resolved[1].kind = "empty"
        /\ lf.future.out.kind = "Ok"
        /\ lf.future.out.lookup.rdatas = <<[kind |-> "A", data |-> "127.0.0.1"]>>)
       => /\ ret.kind = "Ready"
          /\ Ipv4LookupIter(ret.lookup) = <<"127.0.0.1">>
          /\ Len(issued) = 2
    /\ (ByLookup /\ ret.kind = "Ready" /\ ~is_empty(ret.lookup))
       => /\ \E i \in DOMAIN resolved : resolved[i].kind = "nonempty"
          /\ Len(issued) = FirstNonEmpty

C9_Witness ==
    /\ ByLookup /\ NCandidates = 2 /\ ret.kind = "Ready" /\ Len(resolved) = 2
    /\ resolved[1].kind = "empty"
    /\ ret.lookup.rdatas = <<[kind |-> "A", data |-> "127.0.0.1"]>>
    /\ Len(issued) = 2

(* C10: an operation built by error(collaborator, cause) has no candidates *)
(* and never calls the caching client, and every poll result, the first    *)
(* included, is the error whose message is the description of cause.       *)
C10_ErrorCtor ==
    (built.by = "error")
    => /\ lf.names = <<>>
       /\ lf.client_cache = <<>>
       /\ resolved = <<>>
       /\ (ret.kind # "None" => ret = Err(ErrMsg(built.cause.desc)))

C10_Witness ==
    /\ built.by = "error" /\ ret.kind = "Err" /\ ret.err.kind = "Msg"

(* C11: a.append(b) holds a's records followed by b's records in their     *)
(* order, its valid_until is the smaller of the two, which is never later  *)
(* than either input's, and the call leaves both inputs as they were.      *)
C11_Append ==
    /\ [](merged.kind # "none" =>
            LET a == operands[1]
                b == operands[2]
            IN /\ Len(merged.ab.rdatas) = Len(a.rdatas) + Len(b.rdatas)
               /\ \A i \in 1..Len(a.rdatas) : merged.ab.rdatas[i] = a.rdatas[i]
               /\ \A i \in 1..Len(b.rdatas) :
                     merged.ab.rdatas[Len(a.rdatas) + i] = b.rdatas[i]
               /\ merged.ab.valid_until \in {a.valid_until, b.valid_until}
               /\ merged.ab.valid_until <= a.valid_until
               /\ merged.ab.valid_until <= b.valid_until)
    /\ [][operands' = operands]_vars

C11_Witness ==
    /\ merged.kind # "none"
    /\ operands[1].rdatas # <<>> /\ operands[2].rdatas # <<>>
    /\ operands[1].rdatas # operands[2].rdatas
    /\ operands[2].valid_until < operands[1].valid_until
    /\ merged.ab.valid_until = operands[2].valid_until

(* C17: a.append(b).append(c) and a.append(b.append(c)) have the same      *)
(* records and the same valid_until, the smallest of the three; appending  *)
(* an empty container on either side leaves the other operand's records    *)
(* as they are while valid_until is still the smaller of the two.          *)
C17_AppendAlgebra ==
    LET a == operands[1]
        b == operands[2]
        c == operands[3]
    IN /\ merged.kind = "nested" =>
            /\ merged.ab_c.rdatas = merged.a_bc.rdatas
            /\ merged.ab_c.rdatas = a.rdatas \o b.rdatas \o c.rdatas
            /\ merged.ab_c.valid_until = merged.a_bc.valid_until
            /\ merged.ab_c.valid_until \in {a.valid_until, b.valid_until, c.valid_until}
            /\ \A l \in {a, b, c} : merged.ab_c.valid_until <= l.valid_until
       /\ (merged.kind # "none" /\ b.rdatas = <<>>) =>
            /\ merged.ab.rdatas = a.rdatas
            /\ merged.ba.rdatas = a.rdatas
            /\ merged.ab.valid_until = merged.ba.valid_until
            /\ merged.ab.valid_until <= a.valid_until
            /\ merged.ab.valid_until <= b.valid_until
            /\ merged.ab.valid_until \in {a.valid_until, b.valid_until}

C17_Witness ==
    /\ merged.kind = "nested"
    /\ operands[2].rdatas = <<>>
    /\ operands[1].rdatas # <<>> /\ operands[3].rdatas # <<>>
    /\ merged.ab.rdatas = operands[1].rdatas
    /\ merged.ab.valid_until < operands[1].valid_until
    /\ merged.ab_c.rdatas = operands[1].rdatas \o operands[3].rdatas

(* C12: an iterator of a typed view yields the payloads of exactly the     *)
(* container's records of the view's kind, in their order, and is finished *)
(* only when the container is exhausted; two iterators of one view each    *)
(* yield that same sequence from its beginning, whatever the other did.    *)
MatchingPayloads ==
    LET sel == SelectSeq(view.lookup.rdatas, LAMBDA r : r.kind = FamilyKind[view.family])
    IN [i \in 1..Len(sel) |-> sel[i].data]

C12_TypedIter ==
    /\ [](\A i \in DOMAIN iters :
            iters[i].made =>
                /\ Len(iters[i].yielded) <= Len(MatchingPayloads)
                /\ iters[i].yielded = SubSeq(MatchingPayloads, 1, Len(iters[i].yielded))
                /\ (iters[i].done =>
                        /\ iters[i].yielded = MatchingPayloads
                        /\ iters[i].it.inner.rest = <<>>))
    /\ [][\A i, j \in DOMAIN iters :
            (i # j /\ iters'[i] # iters[i]) => iters'[j] = iters[j]]_vars
    /\ [][\A i \in DOMAIN iters :
            (~iters[i].made /\ iters'[i].made) =>
                (iters'[i].yielded = <<>> /\ iters'[i].it.inner.rest = view.lookup.rdatas)]_vars

C12_Witness ==
    /\ iters # <<>>
    /\ iters[1].made /\ iters[1].done /\ iters[2].made /\ iters[2].done
    /\ Len(iters[1].yielded) = 2
    /\ iters[1].yielded[1] # iters[1].yielded[2]
    /\ iters[2].yielded = iters[1].yielded
    /\ Len(view.lookup.rdatas) = 3

(* C13: a poll of the typed future is exactly one poll of the LookupFuture *)
(* inside it, and returns NotReady for NotReady, the same error for an     *)
(* error, and the same container inside the view of its family for Ready;  *)
(* so the typed future has finished exactly when the LookupFuture has.     *)
Mirror(r) ==
    IF r.kind = "Ready"
    THEN [kind |-> "Ready", lookup |-> [family |-> built.family, lookup |-> r.lookup]]
    ELSE r

C13_TypedFutureMirrors ==
    /\ [](tret = Mirror(ret))
    /\ []((tret.kind \in {"Ready", "Err"}) <=> Terminal)
    /\ [][ (lf' # lf /\ ~(lf.future.st = "pending" /\ lf'.future.st = "ready"))
           => /\ lf' = poll(lf).self
              /\ ret' = poll(lf).ret
              /\ tret' = Mirror(poll(lf).ret)
         ]_vars

C13_Witness ==
    /\ ByLookup /\ tret.kind = "Ready"
    /\ tret.lookup.family = "Ipv4Lookup"
    /\ tret.lookup.lookup = ret.lookup
    /\ ~is_empty(ret.lookup)
    /\ Len(issued) >= 2

(* C14: at most one issued sub-query is unresolved at any time; a query is *)
(* issued by a poll only when the current sub-query has resolved to an     *)
(* empty container or to an error, and it takes the place of that one.     *)
InFlight == Len(issued) - Len(resolved)

C14_OneInFlight ==
    /\ [](/\ InFlight \in {0, 1}
          /\ (InFlight = 1 <=> lf.future.st = "pending"))
    /\ [][ (lf'.client_cache # lf.client_cache)
           => /\ lf.future.st = "ready"
              /\ \/ lf.future.out.kind = "Err"
                 \/ (lf.future.out.kind = "Ok" /\ is_empty(lf.future.out.lookup))
              /\ Len(lf'.client_cache) = Len(lf.client_cache) + 1
              /\ lf'.future = PendingFuture
         ]_vars

C14_Witness ==
    /\ ByLookup /\ Len(issued) = 3 /\ lf.future.st = "pending"
    /\ Len(resolved) = 2
    /\ resolved[1].kind = "empty" /\ IsError(resolved[2])

(* C15: a poll that installs the sub-query for the next candidate returns  *)
(* NotReady with the task woken; an unfinished future is always either     *)
(* woken or registered with its pending sub-query; and a freshly installed *)
(* sub-query is polled even if nothing else happens.                       *)
FreshSubQuery == lf.future.st = "pending" /\ ~lf.future.registered /\ Len(issued) >= 2

C15_NoLostWakeup ==
    /\ [][ (lf'.client_cache # lf.client_cache) => (ret' = NotReady /\ notified') ]_vars
    /\ [](~Terminal => (notified \/ (lf.future.st = "pending" /\ lf.future.registered)))
    /\ (FreshSubQuery ~> ~FreshSubQuery)

C15_Witness ==
    /\ FreshSubQuery /\ notified /\ ret = NotReady
    /\ IsError(resolved[Len(resolved)])

(* C16: with woken tasks polled and sub-queries completing, every future   *)
(* reaches a result: a non-empty container, an empty container or an error *)
(* with no candidate left, or the error of an empty input; and it never    *)
(* issues more queries than it was given candidates.                       *)
C16_Terminates ==
    /\ <>Terminal
    /\ [](Len(issued) <= NCandidates)
    /\ [](Terminal =>
            \/ (ret.kind = "Ready" /\ ~is_empty(ret.lookup))
            \/ (ret.kind = "Ready" /\ is_empty(ret.lookup) /\ lf.names = <<>>)
            \/ (ret.kind = "Err" /\ lf.names = <<>>))

C16_Witness ==
    /\ ByLookup /\ Terminal /\ Len(issued) = MaxNames /\ NCandidates = MaxNames
    /\ ret.kind = "Err"

(* C18: a poll that finds the sub-query still pending returns NotReady,    *)
(* removes no candidate, issues no query and keeps the sub-query; and the  *)
(* record type and options stay those given to lookup, in the future and   *)
(* in every query it issues.                                               *)
C18_PendingPollFrame ==
    /\ [][ (lf.future.st = "pending" /\ lf'.future.st = "pending")
           => /\ ret' = NotReady
              /\ tret' = NotReady
              /\ lf'.names = lf.names
              /\ lf'.client_cache = lf.client_cache
              /\ lf'.future.out = lf.future.out
              /\ lf'.record_type = lf.record_type
              /\ lf'.options = lf.options
         ]_vars
    /\ [](ByLookup =>
            /\ lf.record_type = built.record_type
            /\ lf.options = built.options
            /\ \A k \in 1..Len(issued) :
                  /\ issued[k].query.query_type = built.record_type
                  /\ issued[k].options = built.options)

C18_Witness ==
    /\ ByLookup /\ built.options # DnsRequestOptionsDefault
    /\ Len(issued) = 3 /\ lf.future.st = "pending" /\ lf.future.registered
    /\ ret = NotReady /\ ~notified

(* C19: for a future built by lookup from n >= 1 candidates, queries       *)
(* issued plus candidates remaining is always n, the remaining candidates  *)
(* are the first ones of the original list, and the k-th query is for      *)
(* position n-k+1, so no position is queried twice.                        *)
C19_Accounting ==
    (ByLookup /\ NCandidates >= 1)
    => /\ Len(issued) + Len(lf.names) = NCandidates
       /\ lf.names = SubSeq(built.names, 1, Len(lf.names))
       /\ Len(issued) >= 1
       /\ \A k \in 1..Len(issued) :
             /\ NCandidates - k + 1 \in (Len(lf.names) + 1)..NCandidates
             /\ issued[k].query.name = built.names[NCandidates - k + 1]

C19_Witness ==
    /\ ByLookup /\ NCandidates = 3 /\ Len(issued) = 2 /\ Len(lf.names) = 1
    /\ built.names[2] # built.names[3]
    /\ lf.names = <<built.names[1]>>

====
